---------------------------- MODULE Spec2Model ----------------------------
(***************************************************************************)
(* A model of the static-content HTTP server in src/src/server.rs and      *)
(* src/src/http.rs: Page Store construction (Server::load_cfg and          *)
(* create_file), the accept loop (Server::listen), the per-connection      *)
(* handler (Server::handle_connection), the router (Server::find_page),    *)
(* the request parser (Request::new) and the response serializer           *)
(* (Display for Response).                                                 *)
(*                                                                         *)
(* Strings and byte buffers are sequences of one-character strings, so     *)
(* that splitting, replacing, comparing and concatenating are computed the *)
(* way the code computes them.                                             *)
(***************************************************************************)
EXTENDS Integers, Sequences, FiniteSets, TLC

(***************************************************************************)
(* Bounds of the model.                                                    *)
(***************************************************************************)
\* longest descriptor list of a configuration
MaxPages == 2
\* connections the listener hands out before the model stops accepting
MaxConns == 2
\* largest thread_count of a configuration
MaxThreads == 2
\* most header lines added to a Response
MaxHeaders == 2

(***************************************************************************)
(* Program constants.                                                      *)
(***************************************************************************)
\* let mut buffer = [0; 1024];
BufSize == 1024
\* port.unwrap() < 1_024
MinPort == 1024
\* port.unwrap() == 65_535
BadPort == 65535
\* Response::new("1.1", 200, "OK")
StatusOk == 200

(***************************************************************************)
(* Characters and literal strings.                                         *)
(***************************************************************************)
\* a byte that is no valid UTF-8, and the replacement character U+FFFD
BadByte == "0xFF"
Replacement == "U+FFFD"

CRLF == <<"\r", "\n">>
SP == <<" ">>
Slash == <<"/">>
GET == <<"G", "E", "T">>
POST == <<"P", "O", "S", "T">>
PUT == <<"P", "U", "T">>
DELETE == <<"D", "E", "L", "E", "T", "E">>
PATCH == <<"P", "A", "T", "C", "H">>
GetLower == <<"g", "e", "t">>
Http11 == <<"H", "T", "T", "P", "/", "1", ".", "1">>
Http10 == <<"H", "T", "T", "P", "/", "1", ".", "0">>
HostX == <<"H", "o", "s", "t", ":", " ", "x">>
IndexHtml == <<"i", "n", "d", "e", "x", ".", "h", "t", "m", "l">>
Version11 == <<"1", ".", "1">>
MsgOk == <<"O", "K">>
HttpSlash == <<"H", "T", "T", "P", "/">>

(***************************************************************************)
(* String primitives of the Rust standard library, as the code uses them.  *)
(***************************************************************************)
Min(a, b) == IF a < b THEN a ELSE b

\* &s[..n]
Take(s, n) == SubSeq(s, 1, Min(n, Len(s)))

\* &s[n..]
Drop(s, n) == SubSeq(s, n + 1, Len(s))

\* s.starts_with(pat)
StartsWith(s, pat) == Len(pat) <= Len(s) /\ SubSeq(s, 1, Len(pat)) = pat

\* In the operators below, CHOOSE r \in {F(v) : v \in {e}} : TRUE is F(e) with
\* e evaluated once and handed on as a value.

\* the positions where the pattern occurs in s
Occurrences(s, pat) ==
    {i \in 1..(Len(s) - Len(pat) + 1) : SubSeq(s, i, i + Len(pat) - 1) = pat}

\* of the occurrences, those a search finds that goes left to right from
\* position from and resumes after each match
RECURSIVE NonOverlapping(_, _, _)
NonOverlapping(occ, width, from) ==
    LET cand == {i \in occ : i >= from} IN
    IF cand = {} THEN <<>>
    ELSE CHOOSE m \in {<<first>> \o NonOverlapping(occ, width, first + width) :
                        first \in {CHOOSE i \in cand : \A j \in cand : i <= j}} : TRUE

\* the start positions of the non-overlapping matches of a non-empty pattern,
\* searched left to right from position from, as str::split and str::replace
\* find them
MatchesFrom(s, pat, from) ==
    CHOOSE m \in {NonOverlapping(occ, Len(pat), from) : occ \in {Occurrences(s, pat)}} : TRUE

\* the segments of s between the matches of a non-empty pattern
Segments(s, pat) ==
    CHOOSE segs \in
        {[j \in 1..(Len(m) + 1) |->
            SubSeq(s, IF j = 1 THEN 1 ELSE m[j - 1] + Len(pat),
                      IF j = Len(m) + 1 THEN Len(s) ELSE m[j] - 1)] :
         m \in {MatchesFrom(s, pat, 1)}} : TRUE

\* s.split(pat) for a non-empty pattern: the segments between the matches;
\* always at least one segment
Split(s, pat) == CHOOSE segs \in {Segments(v, pat) : v \in {s}} : TRUE

RECURSIVE Concat(_)
Concat(segs) == IF segs = <<>> THEN <<>> ELSE Head(segs) \o Concat(Tail(segs))

\* s.replace(pat, ""): every non-overlapping match of pat removed, left to
\* right; an empty pattern matches between characters and removes nothing
RemoveAll(s, pat) == IF pat = <<>> THEN s ELSE Concat(Split(s, pat))

\* s.split('/').last().unwrap()
LastSegment(s) == LET segs == Split(s, Slash) IN segs[Len(segs)]

\* format!("{}/{}", a, b)
JoinPath(a, b) == a \o Slash \o b

\* String::from_utf8_lossy: every invalid byte becomes U+FFFD
Lossy(b) == IF b = BadByte THEN Replacement ELSE b

from_utf8_lossy(bytes) == <<>> \o [i \in 1..Len(bytes) |-> Lossy(bytes[i])]

\* whether a byte string is valid UTF-8 (what fs::read_to_string requires)
ValidUtf8(bytes) == \A i \in 1..Len(bytes) : bytes[i] # BadByte

\* u16 formatted with {}: its decimal digits
Digit(d) == <<"0", "1", "2", "3", "4", "5", "6", "7", "8", "9">>[d + 1]

RECURSIVE Decimal(_)
Decimal(n) == IF n < 10 THEN <<Digit(n)>> ELSE Append(Decimal(n \div 10), Digit(n % 10))

(***************************************************************************)
(* The file system, as std::fs sees it.  A path resolves to a key: its     *)
(* non-empty components, behind a root marker when the path is absolute.   *)
(* dirs is the set of keys that are directories, files maps the keys that  *)
(* are regular files to their bytes.  The working directory (the empty     *)
(* key) and the root are always directories.                               *)
(***************************************************************************)
IsComponent(c) == c # <<>> /\ c # <<".">>

Components(p) == SelectSeq(Split(p, Slash), IsComponent)

Key(p) == IF StartsWith(p, Slash) THEN <<Slash>> \o Components(p) ELSE Components(p)

TrailingSlash(p) == Len(p) > 0 /\ p[Len(p)] = "/"

Parent(k) == SubSeq(k, 1, Len(k) - 1)

Prefixes(k) == {SubSeq(k, 1, n) : n \in 0..Len(k)}

IsFile(fsys, p) == Key(p) \in DOMAIN fsys.files /\ ~TrailingSlash(p)

IsDir(fsys, p) == Key(p) \in fsys.dirs

\* fs::metadata(p).is_ok()
metadata_ok(fsys, p) == p # <<>> /\ (IsDir(fsys, p) \/ IsFile(fsys, p))

\* fs::create_dir(p): one directory, whose parent must exist
create_dir(fsys, p) ==
    LET k == Key(p) IN
    IF p # <<>> /\ k \notin fsys.dirs /\ k \notin DOMAIN fsys.files
       /\ Parent(k) \in fsys.dirs
    THEN [ok |-> TRUE, fs |-> [fsys EXCEPT !.dirs = @ \cup {k}]]
    ELSE [ok |-> FALSE, fs |-> fsys]

\* fs::create_dir_all(p): the directory and every missing ancestor; fails
\* when a component of the path is a regular file
create_dir_all(fsys, p) ==
    LET k == Key(p) IN
    IF \A q \in Prefixes(k) : q \notin DOMAIN fsys.files
    THEN [ok |-> TRUE, fs |-> [fsys EXCEPT !.dirs = @ \cup Prefixes(k)]]
    ELSE [ok |-> FALSE, fs |-> fsys]

\* fs::write(p, bytes): creates or truncates the file; its directory must exist
fs_write(fsys, p, bytes) ==
    LET k == Key(p) IN
    IF p # <<>> /\ ~TrailingSlash(p) /\ k \notin fsys.dirs /\ Parent(k) \in fsys.dirs
    THEN [ok |-> TRUE, fs |-> [fsys EXCEPT !.files = (k :> bytes) @@ @]]
    ELSE [ok |-> FALSE, fs |-> fsys]

\* fs::read_to_string(p): the whole file, which must be valid UTF-8
read_to_string(fsys, p) ==
    IF IsFile(fsys, p) /\ ValidUtf8(fsys.files[Key(p)])
    THEN [ok |-> TRUE, contents |-> fsys.files[Key(p)]]
    ELSE [ok |-> FALSE, contents |-> <<>>]

(***************************************************************************)
(* Page and create_file.                                                   *)
(***************************************************************************)
\* Page::new(name, path, contents)
Page_new(name, path, contents) == [name |-> name, path |-> path, contents |-> contents]

NoPage == Page_new(<<>>, <<>>, <<>>)

\* the directory create_file computes for a file path:
\* path.replace(path.split('/').last().unwrap(), "")
DirOf(path) == RemoveAll(path, LastSegment(path))

\* CreatedName with the whole path for the name
CreatedName_full(path) == path

\* the name create_file gives the page it returns
CreatedName(path) == LastSegment(path)

\* create_file(path, verbose): make the directories, write an empty file,
\* return the page.  ok is FALSE when one of its two panics is reached; fs is
\* the file system it leaves behind either way.
create_file(fsys, path) ==
    LET dirs == IF metadata_ok(fsys, DirOf(path))
                THEN [ok |-> TRUE, fs |-> fsys]
                ELSE create_dir_all(fsys, DirOf(path))
        file == fs_write(dirs.fs, path, <<>>)
    IN  IF ~dirs.ok THEN [ok |-> FALSE, fs |-> dirs.fs, page |-> NoPage]
        ELSE IF ~file.ok THEN [ok |-> FALSE, fs |-> file.fs, page |-> NoPage]
        ELSE [ok |-> TRUE, fs |-> file.fs,
              page |-> Page_new(CreatedName(path), path, <<>>)]

(***************************************************************************)
(* Request::new.                                                           *)
(***************************************************************************)
Methods == {GET, POST, PUT, DELETE}

\* HeaderLines with `continue` for `break`: empty lines are skipped
RECURSIVE HeaderLines_skip(_)
HeaderLines_skip(lines) ==
    IF lines = <<>> THEN <<>>
    ELSE IF Head(lines) = <<>> THEN HeaderLines_skip(Tail(lines))
    ELSE <<Head(lines)>> \o HeaderLines_skip(Tail(lines))

\* the lines pushed to headers: those before the first empty line
RECURSIVE HeaderLines(_)
HeaderLines(lines) ==
    IF lines = <<>> \/ Head(lines) = <<>> THEN <<>>
    ELSE <<Head(lines)>> \o HeaderLines(Tail(lines))

\* request.split("\r\n"), then the loop that fills headers
ParseHeaders(request) ==
    CHOOSE headers \in {HeaderLines(lines) : lines \in {Split(request, CRLF)}} : TRUE

\* MethodOk with a default arm that accepts the token
MethodOk_any(token) == TRUE

\* whether the method token is one the match accepts
MethodOk(token) == token \in Methods

\* the panic Request::new ends in, or "none": headers[0] out of bounds, the
\* method match's default arm, nth(1).unwrap(), nth(2).unwrap(), in the order
\* the struct expression evaluates them
ParsePanic(request) ==
    LET headers == ParseHeaders(request) IN
    IF headers = <<>> THEN "index"
    ELSE LET words == Split(headers[1], SP) IN
         IF ~MethodOk(words[1]) THEN "method"
         ELSE IF Len(words) < 2 THEN "path"
         ELSE IF Len(words) < 3 THEN "version"
         ELSE "none"

\* Request_new for a parser that takes what follows the empty line as the body
Request_new_body(request) ==
    LET lines == Split(request, CRLF)
        headers == HeaderLines(lines)
        words == Split(headers[1], SP)
    IN  [method |-> words[1], path |-> words[2], version |-> words[3],
         headers |-> headers,
         body |-> Concat(SubSeq(lines, Min(Len(headers) + 2, Len(lines) + 1), Len(lines)))]

\* the Request that Request::new returns when it does not panic
Request_new(request) ==
    LET headers == ParseHeaders(request)
        words == Split(headers[1], SP)
    IN  [method |-> words[1], path |-> words[2], version |-> words[3],
         headers |-> headers, body |-> <<>>]

NoRequest == [method |-> <<>>, path |-> <<>>, version |-> <<>>, headers |-> <<>>, body |-> <<>>]

(***************************************************************************)
(* Response and its Display.                                               *)
(***************************************************************************)
\* Response::new(version, status_code, status_message)
Response_new(version, status_code, status_message) ==
    [version |-> version, status_code |-> status_code,
     status_message |-> status_message, headers |-> <<>>, body |-> <<>>]

set_status_code(response, status_code) == [response EXCEPT !.status_code = status_code]

set_status_message(response, msg) == [response EXCEPT !.status_message = msg]

set_body(response, body) == [response EXCEPT !.body = body]

add_header(response, header) == [response EXCEPT !.headers = Append(@, header)]

NoResponse == Response_new(<<>>, 0, <<>>)

\* for header in &self.headers { response += &format!("{}\r\n", header); }
RECURSIVE HeaderBlock(_)
HeaderBlock(headers) ==
    IF headers = <<>> THEN <<>>
    ELSE Head(headers) \o CRLF \o HeaderBlock(Tail(headers))

\* to_string with a line terminator appended after the body
to_string_crlf(response) ==
    HttpSlash \o response.version \o SP \o Decimal(response.status_code) \o SP
        \o response.status_message \o CRLF
        \o HeaderBlock(response.headers) \o CRLF \o response.body \o CRLF

\* impl fmt::Display for Response
to_string(response) ==
    HttpSlash \o response.version \o SP \o Decimal(response.status_code) \o SP
        \o response.status_message \o CRLF
        \o HeaderBlock(response.headers) \o CRLF \o response.body

(***************************************************************************)
(* Server::find_page.                                                      *)
(***************************************************************************)
\* for page in &self.pages { if page.get_name() == request.get_path() { return page; } }
RECURSIVE ScanPages(_, _)
ScanPages(ps, path) ==
    IF ps = <<>> THEN <<>>
    ELSE IF Head(ps).name = path THEN <<Head(ps)>>
    ELSE ScanPages(Tail(ps), path)

\* find_page with the scan keeping the last hit instead of returning the first
find_page_last(ps, path) ==
    LET hits == {i \in 1..Len(ps) : ps[i].name = path} IN
    IF hits = {} THEN ps[1] ELSE ps[CHOOSE i \in hits : \A j \in hits : j <= i]

\* the page find_page returns: the scan's hit, or &self.pages[0]
find_page(ps, path) ==
    LET hit == ScanPages(ps, path) IN
    IF hit # <<>> THEN hit[1] ELSE ps[1]

\* BuildResponse without the call of set_body
BuildResponse_nobody(page) == Response_new(Version11, StatusOk, MsgOk)

\* the response handle_connection builds for a page
BuildResponse(page) == set_body(Response_new(Version11, StatusOk, MsgOk), page.contents)

(***************************************************************************)
(* Inputs: configurations, initial file systems, and the bytes a client    *)
(* sends.                                                                  *)
(***************************************************************************)
\* an Option<&str> as JsonValue::as_str returns it
Some(v) == [some |-> TRUE, v |-> v]
NoneStr == [some |-> FALSE, v |-> <<>>]

\* as_u16() returning None
NoneNum == -1

Descriptor(name, path) == [name |-> Some(name), path |-> Some(path)]

PathNested == <<"c">> \o Slash \o IndexHtml
PathB == <<"c", "/", "b">>
NameRoot == <<"/">>
NameA == <<"/", "a">>
NameUpperA == <<"/", "A">>

\* the descriptors a configuration's pages list is drawn from
Descriptors ==
    { Descriptor(NameRoot, IndexHtml),
      Descriptor(NameA, PathNested),
      Descriptor(NameUpperA, PathB),
      Descriptor(NameA, IndexHtml) }

\* a descriptor whose name, or whose path, is no string
BadDescriptors ==
    { [name |-> NoneStr, path |-> Some(IndexHtml)],
      [name |-> Some(NameRoot), path |-> NoneStr] }

RECURSIVE SeqsUpTo(_, _)
SeqsUpTo(S, n) ==
    IF n = 0 THEN {<<>>}
    ELSE LET shorter == SeqsUpTo(S, n - 1) IN
         shorter \cup {Append(q, x) : q \in {r \in shorter : Len(r) = n - 1}, x \in S}

WebRoots == {<<"w">>, <<"a", "b">>}

Port8080 == 8080

\* the configurations construction succeeds or fails on for its pages alone
ValidConfigs ==
    [verbose : {"true", "false"}, thread_count : {1, MaxThreads}, port : {Port8080},
     web_root : {Some(r) : r \in WebRoots}, pages : SeqsUpTo(Descriptors, MaxPages)]

BaseConfig ==
    [verbose |-> "true", thread_count |-> 1, port |-> Port8080,
     web_root |-> Some(<<"w">>), pages |-> <<Descriptor(NameRoot, IndexHtml)>>]

\* configurations load_cfg rejects, or whose web root it cannot create
InvalidConfigs ==
    { [BaseConfig EXCEPT !.verbose = "none"],
      [BaseConfig EXCEPT !.thread_count = NoneNum],
      [BaseConfig EXCEPT !.thread_count = 0],
      [BaseConfig EXCEPT !.port = NoneNum],
      [BaseConfig EXCEPT !.port = MinPort - 1],
      [BaseConfig EXCEPT !.port = BadPort],
      [BaseConfig EXCEPT !.web_root = NoneStr],
      [BaseConfig EXCEPT !.web_root = Some(<<"n", "/", "w">>)] }
    \cup { [BaseConfig EXCEPT !.pages = <<d>>] : d \in BadDescriptors }
    \cup { [BaseConfig EXCEPT !.pages = <<Descriptor(NameRoot, IndexHtml), d>>] :
             d \in BadDescriptors }

Configs == ValidConfigs \cup InvalidConfigs

Hi == <<"H", "i">>
ContentLength2 ==
    <<"C", "o", "n", "t", "e", "n", "t", "-", "L", "e", "n", "g", "t", "h", ":", " ", "2">>

BaseDirs == {<<>>, <<Slash>>}

\* nothing on disk
FsBare == [dirs |-> BaseDirs, files |-> <<>>]

\* the web root with index.html, c/index.html and c/b
FsSite(r) ==
    [dirs |-> BaseDirs \cup {<<r>>, <<r, <<"c">>>>},
     files |-> (<<r, IndexHtml>> :> Hi) @@ (<<r, <<"c">>, IndexHtml>> :> MsgOk)
                 @@ (<<r, <<"c">>, <<"b">>>> :> <<"B">>)]

\* the web root with index.html alone
FsFlat(r) ==
    [dirs |-> BaseDirs \cup {<<r>>}, files |-> (<<r, IndexHtml>> :> Hi)]

\* the web root with an index.html that is no valid UTF-8
FsBinary(r) ==
    [dirs |-> BaseDirs \cup {<<r>>}, files |-> (<<r, IndexHtml>> :> <<"H", BadByte>>)]

InitialFs(r) == {FsBare, FsSite(r), FsFlat(r), FsBinary(r)}

\* n filler bytes
Pad(n) == [i \in 1..n |-> "x"]

ReqLine(method, path, version) == method \o SP \o path \o SP \o version

\* a request line and the start of a header line, BufSize bytes in all
LongHead == ReqLine(GET, NameA, Http11) \o CRLF \o <<"X", ":", " ">> \o Pad(BufSize - 20)

\* what a client may have sent when the one read of its connection returns
Requests ==
    { ReqLine(GET, NameRoot, Http11) \o CRLF \o HostX \o CRLF \o CRLF,
      ReqLine(POST, NameA, Http10) \o CRLF \o ContentLength2 \o CRLF \o CRLF \o Hi,
      GET \o SP \o SP \o NameRoot \o SP \o Http11 \o CRLF \o CRLF,
      ReqLine(GET, NameUpperA, Http11),
      ReqLine(PUT, IndexHtml, Http11) \o CRLF \o CRLF,
      ReqLine(DELETE, <<"/", "m">>, Http11) \o CRLF \o CRLF,
      ReqLine(GET, <<"/", BadByte>>, Http11) \o CRLF \o CRLF,
      <<>>,
      CRLF \o ReqLine(GET, NameRoot, Http11) \o CRLF,
      ReqLine(PATCH, NameRoot, Http11) \o CRLF \o CRLF,
      ReqLine(GetLower, NameRoot, Http11) \o CRLF \o CRLF,
      GET \o SP \o NameRoot,
      GET,
      GET \o SP \o Slash \o Pad(BufSize - 5) \o SP \o Http11 \o CRLF \o CRLF,
      GET \o SP \o Slash \o Pad(BufSize - 5) \o CRLF \o CRLF,
      ReqLine(PUT, NameA, Http11) \o CRLF \o HostX \o CRLF \o CRLF,
      LongHead \o CRLF \o CRLF,
      LongHead \o Pad(3) \o CRLF \o HostX \o CRLF \o CRLF }

(***************************************************************************)
(* State.                                                                  *)
(***************************************************************************)
VARIABLES
    config,     \* the parsed config.json handed to Server::new
    fs0,        \* the file system before construction
    fs,         \* the file system
    pc,         \* where the main thread is: "new", "load_pages", "constructed",
                \* "accepting", "install" or "terminated"
    idx,        \* load_cfg: the descriptors its loop has finished
    pages,      \* Server.pages (the vector load_cfg is filling, before)
    conns,      \* the accepted connections: state, buffer, request, response,
                \* out, the bytes written to the stream; sent, what the
                \* client sent; wrote, how much of the response reached it
    accepted,   \* connections accepted so far
    cur,        \* the connection the main thread has handed to install
    failure,    \* the first panic of the process, "none" before
    resp,       \* a Response value under construction, outside any connection
    wire        \* the String the last to_string of resp returned, <<>> before

vars == <<config, fs0, fs, pc, idx, pages, conns, accepted, cur, failure, resp, wire>>

\* the connection states in which the task of a connection is not over
Handling == {"queued", "reading", "read", "written"}

NewConn ==
    [state |-> "queued", sent |-> <<>>, buffer |-> <<>>, request |-> NoRequest,
     response |-> NoResponse, out |-> <<>>, wrote |-> "nothing"]

\* a connection whose stream was dropped
Dropped(state) == [NewConn EXCEPT !.state = state]

Init ==
    /\ config \in Configs
    /\ fs0 \in InitialFs(IF config.web_root.some THEN config.web_root.v ELSE <<"w">>)
    /\ fs = fs0
    /\ pc = "new"
    /\ idx = 0
    /\ pages = <<>>
    /\ conns = <<>>
    /\ accepted = 0
    /\ cur = 0
    /\ failure = "none"
    /\ resp = NoResponse
    /\ wire = <<>>

\* panic!() on the main thread: the process ends
Panic(why) ==
    /\ pc' = "terminated"
    /\ failure' = IF failure = "none" THEN why ELSE failure

(***************************************************************************)
(* Server::new / Server::load_cfg.                                         *)
(***************************************************************************)
\* the checks of verbose, thread_count, port and web_root
ConfigPanic(cfg) ==
    IF cfg.verbose = "none" THEN "verbose"
    ELSE IF cfg.thread_count = NoneNum \/ cfg.thread_count < 1 THEN "thread_count"
    ELSE IF cfg.port = NoneNum \/ cfg.port < MinPort \/ cfg.port = BadPort THEN "port"
    ELSE IF ~cfg.web_root.some THEN "web_root"
    ELSE "none"

\* if !fs::metadata(web_root).is_ok() { fs::create_dir(web_root) ... }
EnsureWebRoot(fsys, web_root) ==
    IF metadata_ok(fsys, web_root) THEN [ok |-> TRUE, fs |-> fsys]
    ELSE create_dir(fsys, web_root)

\* DefaultPages with the page left out of the vector
DefaultPages_empty(page) == <<>>

\* pages: vec!(page), of the branch for an empty pages array
DefaultPages(page) == <<page>>

\* one pass of the loop over pages_from_file, for descriptor d
LoadOne(fsys, web_root, d) ==
    LET full == JoinPath(web_root, d.path.v) IN
    IF ~d.name.some \/ ~d.path.some
    THEN [ok |-> FALSE, why |-> "page_config", fs |-> fsys, page |-> NoPage]
    ELSE IF ~metadata_ok(fsys, full)
    THEN LET made == create_file(fsys, full) IN
         [ok |-> made.ok, why |-> "create_file", fs |-> made.fs, page |-> made.page]
    ELSE LET contents == read_to_string(fsys, full) IN
         IF ~contents.ok
         THEN [ok |-> FALSE, why |-> "read_to_string", fs |-> fsys, page |-> NoPage]
         ELSE [ok |-> TRUE, why |-> "none", fs |-> fsys,
               page |-> Page_new(d.name.v, d.path.v, contents.contents)]

\* load_cfg up to the loop: the field checks, the web root, and the branch
\* for an empty pages array, which returns the Server
LoadCfg ==
    /\ pc = "new"
    /\ UNCHANGED <<resp, wire, config, fs0, idx, conns, accepted, cur>>
    /\ IF ConfigPanic(config) # "none"
       THEN Panic(ConfigPanic(config)) /\ UNCHANGED <<fs, pages>>
       ELSE LET web_root == config.web_root.v
                root == EnsureWebRoot(fs, web_root)
            IN  IF ~root.ok
                THEN Panic("create_dir") /\ UNCHANGED <<fs, pages>>
                ELSE IF Len(config.pages) = 0
                THEN LET made == create_file(root.fs, JoinPath(web_root, IndexHtml)) IN
                     /\ fs' = made.fs
                     /\ IF made.ok
                        THEN pages' = DefaultPages(made.page) /\ pc' = "constructed"
                                /\ UNCHANGED failure
                        ELSE Panic("create_file") /\ UNCHANGED pages
                ELSE /\ fs' = root.fs
                     /\ pc' = "load_pages"
                     /\ UNCHANGED <<pages, failure>>

\* one pass of load_cfg's loop; after the last one the Server is returned
LoadPage ==
    /\ pc = "load_pages"
    /\ UNCHANGED <<resp, wire, config, fs0, conns, accepted, cur>>
    /\ LET one == LoadOne(fs, config.web_root.v, config.pages[idx + 1]) IN
       /\ fs' = one.fs
       /\ IF one.ok
          THEN /\ pages' = Append(pages, one.page)
               /\ idx' = idx + 1
               /\ pc' = IF idx + 1 = Len(config.pages) THEN "constructed" ELSE "load_pages"
               /\ UNCHANGED failure
          ELSE Panic(one.why) /\ UNCHANGED <<pages, idx>>

(***************************************************************************)
(* Server::listen.                                                         *)
(***************************************************************************)
\* TcpListener::bind, and the panic when it fails
Listen ==
    /\ pc = "constructed"
    /\ UNCHANGED <<resp, wire, config, fs0, fs, idx, pages, conns, accepted, cur>>
    /\ \E bound \in BOOLEAN :
         IF bound THEN pc' = "accepting" /\ UNCHANGED failure
         ELSE Panic("bind")

\* AfterAcceptError for a loop that skips the failed accept
AfterAcceptError_retry == "accepting"

\* where the accept loop goes after an accept that failed
AfterAcceptError == "terminated"

\* one turn of `for stream in listener.incoming()`: the stream, or the panic
\* when accepting failed; the stream is handed to thread_pool.install
Accept ==
    /\ pc = "accepting"
    /\ accepted < MaxConns
    /\ UNCHANGED <<resp, wire, config, fs0, fs, idx, pages>>
    /\ \E stream_ok \in BOOLEAN :
         IF stream_ok
         THEN /\ accepted' = accepted + 1
              /\ cur' = accepted + 1
              /\ conns' = ((accepted + 1) :> NewConn) @@ conns
              /\ pc' = "install"
              /\ UNCHANGED failure
         ELSE /\ pc' = AfterAcceptError
              /\ failure' = IF failure = "none" THEN "accept" ELSE failure
              /\ UNCHANGED <<conns, accepted, cur>>

\* InstallOver for a pool call that does not wait for the closure (spawn)
InstallOver_spawn(k) == TRUE

\* InstallOver for a dispatch that gives up on a closure still in its read
InstallOver_timeout(k) == conns[k].state \in {"closed", "panicked", "reading"}

\* whether install has what it waits for: the closure it ran on a worker is
\* over, by returning or by panicking
InstallOver(k) == conns[k].state \in {"closed", "panicked"}

\* InstallReturn for a dispatch that keeps a closure's panic on its worker
InstallReturn_isolated ==
    /\ pc = "install"
    /\ InstallOver(cur)
    /\ UNCHANGED <<resp, wire, config, fs0, fs, idx, pages, conns, accepted, cur>>
    /\ pc' = "accepting"
    /\ UNCHANGED failure

\* thread_pool.install returns, or resumes the closure's panic on the main thread
InstallReturn ==
    /\ pc = "install"
    /\ InstallOver(cur)
    /\ UNCHANGED <<resp, wire, config, fs0, fs, idx, pages, conns, accepted, cur>>
    /\ IF conns[cur].state = "panicked"
       THEN Panic("worker")
       ELSE pc' = "accepting" /\ UNCHANGED failure

(***************************************************************************)
(* The closure on a worker: Server::handle_connection.                     *)
(***************************************************************************)
Running == pc # "terminated"

\* a panic inside handle_connection: unwinding drops the stream
WorkerPanic(k, why, written) ==
    /\ conns' = [conns EXCEPT ![k] =
                    [Dropped("panicked") EXCEPT
                        !.out = written,
                        !.wrote = IF why # "write" THEN conns[k].wrote
                                  ELSE IF written = <<>> THEN "nothing" ELSE "part"]]
    /\ failure' = IF failure = "none" THEN why ELSE failure

\* a worker of the pool takes the closure; the pool has thread_count workers
StartTask(k) ==
    /\ Running
    /\ conns[k].state = "queued"
    /\ Cardinality({j \in DOMAIN conns : conns[j].state \in Handling \ {"queued"}})
         < config.thread_count
    /\ conns' = [conns EXCEPT ![k].state = "reading"]
    /\ UNCHANGED <<resp, wire, config, fs0, fs, pc, idx, pages, accepted, cur, failure>>

\* ReadBuffer for a read loop that takes everything the client sent
ReadBuffer_all(sent) == sent

\* &buffer[..bytes_read] after the one stream.read into [0; 1024]
ReadBuffer(sent) == Take(sent, BufSize)

\* stream.read(&mut buffer): at most BufSize bytes of what the client sent,
\* or the panic when reading failed
Read(k) ==
    /\ Running
    /\ conns[k].state = "reading"
    /\ UNCHANGED <<resp, wire, config, fs0, fs, pc, idx, pages, accepted, cur>>
    /\ \/ \E sent \in Requests :
            /\ conns' = [conns EXCEPT ![k].state = "read", ![k].sent = sent,
                                      ![k].buffer = ReadBuffer(sent)]
            /\ UNCHANGED failure
       \/ WorkerPanic(k, "read", <<>>)

\* the prefixes of a response that a failed write_all may have written
PartialWrites(bytes) == {Take(bytes, n) : n \in {0, 1, Len(bytes) - 1}}

\* Respond for a router that moves the served page to the front of the store
Respond_reorder(k) ==
    /\ Running
    /\ conns[k].state = "read"
    /\ UNCHANGED <<resp, wire, config, fs0, fs, pc, idx, accepted, cur>>
    /\ \E text \in {from_utf8_lossy(conns[k].buffer)} :
       IF ParsePanic(text) # "none"
       THEN WorkerPanic(k, ParsePanic(text), <<>>) /\ UNCHANGED pages
       ELSE LET request == Request_new(text)
                page == find_page(pages, request.path)
                response == BuildResponse(page)
            IN  /\ pages' = <<page>> \o SelectSeq(pages, LAMBDA q : q # page)
                /\ \/ /\ conns' = [conns EXCEPT ![k].state = "written",
                                                ![k].request = request,
                                                ![k].response = response,
                                                ![k].out = to_string(response),
                                                ![k].wrote = "all"]
                      /\ UNCHANGED failure
                   \/ \E part \in PartialWrites(to_string(response)) :
                           WorkerPanic(k, "write", part)

\* Respond for a handler that answers in the HTTP version of the request
Respond_echo(k) ==
    /\ Running
    /\ conns[k].state = "read"
    /\ UNCHANGED <<resp, wire, config, fs0, fs, pc, idx, pages, accepted, cur>>
    /\ \E text \in {from_utf8_lossy(conns[k].buffer)} :
       IF ParsePanic(text) # "none"
       THEN WorkerPanic(k, ParsePanic(text), <<>>)
       ELSE LET request == Request_new(text)
                page == find_page(pages, request.path)
                response == [BuildResponse(page) EXCEPT
                                !.version = Drop(request.version, Len(HttpSlash))]
            IN  \/ /\ conns' = [conns EXCEPT ![k].state = "written",
                                             ![k].request = request,
                                             ![k].response = response,
                                             ![k].out = to_string(response),
                                             ![k].wrote = "all"]
                   /\ UNCHANGED failure
                \/ \E part \in PartialWrites(to_string(response)) :
                        WorkerPanic(k, "write", part)

\* from_utf8_lossy, Request::new, find_page, the response, write_all
Respond(k) ==
    /\ Running
    /\ conns[k].state = "read"
    /\ UNCHANGED <<resp, wire, config, fs0, fs, pc, idx, pages, accepted, cur>>
    /\ \E text \in {from_utf8_lossy(conns[k].buffer)} :
       IF ParsePanic(text) # "none"
       THEN WorkerPanic(k, ParsePanic(text), <<>>)
       ELSE \E request \in {Request_new(text)} :
            \E page \in {find_page(pages, request.path)} :
            \E response \in {BuildResponse(page)} :
                \/ /\ conns' = [conns EXCEPT ![k].state = "written",
                                             ![k].request = request,
                                             ![k].response = response,
                                             ![k].out = to_string(response),
                                             ![k].wrote = "all"]
                   /\ UNCHANGED failure
                \/ \E part \in PartialWrites(to_string(response)) :
                        WorkerPanic(k, "write", part)

\* Finish for a handler that keeps the connection and reads from it again
Finish_keepalive(k) ==
    /\ Running
    /\ conns[k].state = "written"
    /\ UNCHANGED <<resp, wire, config, fs0, fs, pc, idx, pages, accepted, cur>>
    /\ \E outcome \in {"ok", "flush", "peer_addr"} :
         /\ outcome = "peer_addr" => config.verbose = "true"
         /\ IF outcome = "ok"
            THEN /\ conns' = [conns EXCEPT ![k] =
                                 [NewConn EXCEPT !.state = "reading",
                                                 !.wrote = conns[k].wrote]]
                 /\ UNCHANGED failure
            ELSE WorkerPanic(k, outcome, conns[k].out)

\* Finish for a handler that asks for the peer address whether verbose or not
Finish_always_log(k) ==
    /\ Running
    /\ conns[k].state = "written"
    /\ UNCHANGED <<resp, wire, config, fs0, fs, pc, idx, pages, accepted, cur>>
    /\ \E outcome \in {"ok", "flush", "peer_addr"} :
         IF outcome = "ok"
         THEN /\ conns' = [conns EXCEPT ![k] =
                              [Dropped("closed") EXCEPT !.wrote = conns[k].wrote]]
              /\ UNCHANGED failure
         ELSE WorkerPanic(k, outcome, conns[k].out)

\* stream.flush().unwrap(), the verbose line with peer_addr().unwrap(), and
\* the return, which drops the stream
Finish(k) ==
    /\ Running
    /\ conns[k].state = "written"
    /\ UNCHANGED <<resp, wire, config, fs0, fs, pc, idx, pages, accepted, cur>>
    /\ \E outcome \in {"ok", "flush", "peer_addr"} :
         /\ outcome = "peer_addr" => config.verbose = "true"
         /\ IF outcome = "ok"
            THEN /\ conns' = [conns EXCEPT ![k] =
                                 [Dropped("closed") EXCEPT !.wrote = conns[k].wrote]]
                 /\ UNCHANGED failure
            ELSE WorkerPanic(k, outcome, conns[k].out)

Next ==
    \/ LoadCfg
    \/ LoadPage
    \/ Listen
    \/ Accept
    \/ InstallReturn
    \/ \E k \in DOMAIN conns : StartTask(k)
    \/ \E k \in DOMAIN conns : Read(k)
    \/ \E k \in DOMAIN conns : Respond(k)
    \/ \E k \in DOMAIN conns : Finish(k)

Spec == Init /\ [][Next]_vars

(***************************************************************************)
(* The Response type on its own: a value made by Response::new, changed by *)
(* its mutators in any order, and serialized by to_string.                 *)
(***************************************************************************)
NotFound == 404
Seven == 7
MsgNotFound == <<"N", "o", "t", " ", "F", "o", "u", "n", "d">>
HeaderA == <<"A", ":", "1">>
BodyLines == <<"a", "\r", "\n">>

ResponseVersions == {Version11, <<"1", ".", "0">>}
ResponseCodes == {StatusOk, NotFound, Seven}
ResponseMessages == {MsgOk, MsgNotFound, <<>>}
ResponseHeaders == {HostX, HeaderA}
ResponseBodies == {<<>>, Hi, BodyLines}

\* everything but resp and wire
server == <<config, fs0, fs, pc, idx, pages, conns, accepted, cur, failure>>

InitResponse ==
    /\ config = BaseConfig
    /\ fs0 = FsBare
    /\ fs = fs0
    /\ pc = "new"
    /\ idx = 0
    /\ pages = <<>>
    /\ conns = <<>>
    /\ accepted = 0
    /\ cur = 0
    /\ failure = "none"
    /\ \E v \in ResponseVersions : resp = Response_new(v, StatusOk, MsgOk)
    /\ wire = <<>>

SetStatusCode ==
    /\ \E c \in ResponseCodes : resp' = set_status_code(resp, c)
    /\ wire' = <<>>
    /\ UNCHANGED server

SetStatusMessage ==
    /\ \E m \in ResponseMessages : resp' = set_status_message(resp, m)
    /\ wire' = <<>>
    /\ UNCHANGED server

SetBody ==
    /\ \E b \in ResponseBodies : resp' = set_body(resp, b)
    /\ wire' = <<>>
    /\ UNCHANGED server

AddHeader ==
    /\ Len(resp.headers) < MaxHeaders
    /\ \E h \in ResponseHeaders : resp' = add_header(resp, h)
    /\ wire' = <<>>
    /\ UNCHANGED server

\* response.to_string()
Serialize ==
    /\ wire' = to_string(resp)
    /\ UNCHANGED resp
    /\ UNCHANGED server

NextResponse ==
    \/ SetStatusCode
    \/ SetStatusMessage
    \/ SetBody
    \/ AddHeader
    \/ Serialize

ResponseSpec == InitResponse /\ [][NextResponse]_vars

(***************************************************************************)
(* The server among clients that each send a well-formed request, with no  *)
(* bind, accept, read, write or flush failing. Once a connection has been  *)
(* accepted the steps on it are taken when they can be: a thread that can  *)
(* run does run. When a client connects is up to the client.               *)
(***************************************************************************)
\* the requests with a supported method and three pieces in the request line
WellFormed == {sent \in Requests : ParsePanic(from_utf8_lossy(sent)) = "none"}

\* the step was not the failure of a bind, accept, read, write or flush
NoIoFailure == failure' \notin {"bind", "accept", "read", "write", "flush"}

GoodListen == Listen /\ NoIoFailure

GoodAccept == Accept /\ NoIoFailure

GoodRead(k) == Read(k) /\ NoIoFailure /\ conns'[k].sent \in WellFormed

GoodRespond(k) == Respond(k) /\ NoIoFailure

GoodFinish(k) == Finish(k) /\ NoIoFailure

\* the steps of the main thread and the worker on an accepted connection
Serve ==
    \/ InstallReturn
    \/ \E k \in DOMAIN conns : StartTask(k)
    \/ \E k \in DOMAIN conns : GoodRead(k)
    \/ \E k \in DOMAIN conns : GoodRespond(k)
    \/ \E k \in DOMAIN conns : GoodFinish(k)

GoodNext ==
    \/ LoadCfg
    \/ LoadPage
    \/ GoodListen
    \/ GoodAccept
    \/ Serve

GoodSpec == Init /\ [][GoodNext]_vars /\ WF_vars(Serve)

(***************************************************************************)
(* Vocabulary of the properties.                                           *)
(***************************************************************************)
\* the panics of Server::new
ConstructionPanics ==
    {"verbose", "thread_count", "port", "web_root", "create_dir", "create_file",
     "page_config", "read_to_string"}

\* Server::new has returned
Constructed == pc \notin {"new", "load_pages"} /\ failure \notin ConstructionPanics

\* the positions of the pages whose name is the path
Matching(ps, path) == {i \in 1..Len(ps) : ps[i].name = path}

\* the smallest element of a non-empty set of numbers
Least(S) == CHOOSE i \in S : \A j \in S : i <= j

\* request paths the router is asked about
ProbePaths ==
    {NameRoot, NameA, NameUpperA, IndexHtml, <<"b">>, <<"/", "a", "/">>,
     <<"/", "m">>, <<>>, <<" ", "/", "a">>, <<"/", Replacement>>}

\* the bytes of a 200 response with no header lines, up to the body
Head200 ==
    <<"H", "T", "T", "P", "/", "1", ".", "1", " ", "2", "0", "0", " ", "O", "K",
      "\r", "\n", "\r", "\n">>

IsPrefix(a, b) == Len(a) <= Len(b) /\ SubSeq(b, 1, Len(a)) = a

\* the text the parser is given for a buffer
TextOf(k) == from_utf8_lossy(conns[k].buffer)

\* the first CRLF-delimited line of a text, and its space-separated tokens
FirstLine(text) == Split(text, CRLF)[1]
Tokens(text) == Split(FirstLine(text), SP)

\* connection k's task ended in a panic with nothing written and no Request
FailedSilently(c) == c.state = "panicked" /\ c.out = <<>> /\ c.request = NoRequest

(***************************************************************************)
(* C1: in every state after Server::new has returned, whatever the length  *)
(* of the configured pages list and however many connections were handled, *)
(* the page sequence holds at least one page.                              *)
(***************************************************************************)
C1_PagesNonEmpty == Constructed => Len(pages) >= 1

\* an empty pages list, and a connection already handled to its end
C1_Witness ==
    /\ Constructed
    /\ config.pages = <<>>
    /\ \E k \in DOMAIN conns : conns[k].state = "closed"

(***************************************************************************)
(* C2: find_page returns the first page, in sequence order, whose name is  *)
(* exactly the path, and the page at position 0 when no name is the path.  *)
(***************************************************************************)
C2_FindPage ==
    Constructed =>
        \A path \in ProbePaths :
            find_page(pages, path) =
                IF Matching(pages, path) = {} THEN pages[1]
                ELSE pages[Least(Matching(pages, path))]

\* two pages share the requested name and differ, and the first was served
C2_Witness ==
    \E k \in DOMAIN conns :
        /\ conns[k].state = "written"
        /\ Len(pages) >= 2
        /\ pages[1].name = conns[k].request.path
        /\ pages[2].name = conns[k].request.path
        /\ pages[1].contents # pages[2].contents
        /\ conns[k].response.body = pages[1].contents

(***************************************************************************)
(* C3: every response written has version 1.1, status 200, message OK, no  *)
(* header lines and the routed page's contents as its body; a path that    *)
(* matches no name gets the first page's contents; no bytes written to a   *)
(* connection ever start another status line.                              *)
(***************************************************************************)
C3_AlwaysOk ==
    \A k \in DOMAIN conns :
        /\ conns[k].state = "written" =>
             LET hits == Matching(pages, conns[k].request.path) IN
             /\ conns[k].response.version = Version11
             /\ conns[k].response.status_code = StatusOk
             /\ conns[k].response.status_message = MsgOk
             /\ conns[k].response.headers = <<>>
             /\ conns[k].response.body =
                  IF hits = {} THEN pages[1].contents ELSE pages[Least(hits)].contents
             /\ conns[k].out = Head200 \o conns[k].response.body
        /\ IsPrefix(conns[k].out, Head200) \/ IsPrefix(Head200, conns[k].out)

\* a path that is no page's name was answered with the first page's contents
C3_Witness ==
    \E k \in DOMAIN conns :
        /\ conns[k].state = "written"
        /\ Matching(pages, conns[k].request.path) = {}
        /\ pages[1].contents # <<>>
        /\ conns[k].out = Head200 \o pages[1].contents

(***************************************************************************)
(* C4: at most one connection is being handled at any time, whatever the   *)
(* thread count: the accept loop is back at accept only when no task is    *)
(* in flight, and every earlier connection is closed before a later one    *)
(* is read.                                                                *)
(***************************************************************************)
C4_OneAtATime ==
    LET inflight == {k \in DOMAIN conns : conns[k].state \in Handling} IN
    /\ Cardinality(inflight) <= 1
    /\ pc = "accepting" => inflight = {}
    /\ \A k \in inflight : \A j \in DOMAIN conns : j < k => conns[j].state = "closed"

\* a pool of several workers, reading the second connection after the first closed
C4_Witness ==
    /\ config.thread_count >= 2
    /\ 2 \in DOMAIN conns
    /\ conns[1].state = "closed"
    /\ conns[2].state = "reading"

(***************************************************************************)
(* C5: a request whose first token is none of GET, POST, PUT, DELETE ends  *)
(* in a panic: no Request, and no byte written to the connection.          *)
(***************************************************************************)
BadMethod(k) == conns[k].state = "read" /\ Tokens(TextOf(k))[1] \notin {GET, POST, PUT, DELETE}

C5_BadMethodFatal ==
    [][\A k \in DOMAIN conns :
         BadMethod(k) => conns'[k] = conns[k] \/ FailedSilently(conns'[k])]_vars

\* the method match's default arm was reached and nothing was written
C5_Witness ==
    /\ failure = "method"
    /\ cur \in DOMAIN conns
    /\ FailedSilently(conns[cur])

(***************************************************************************)
(* C6: an empty read, a text whose first line is empty, or a request line  *)
(* of fewer than three tokens ends in a panic: no Request, no byte         *)
(* written; in the first two cases the header list is empty.               *)
(***************************************************************************)
NoRequestLine(k) == conns[k].state = "read" /\ FirstLine(TextOf(k)) = <<>>

ShortRequestLine(k) == conns[k].state = "read" /\ Len(Tokens(TextOf(k))) < 3

C6_ShortInputFatal ==
    [][\A k \in DOMAIN conns :
         /\ NoRequestLine(k) => ParseHeaders(TextOf(k)) = <<>>
         /\ NoRequestLine(k) \/ ShortRequestLine(k) =>
              conns'[k] = conns[k] \/ FailedSilently(conns'[k])]_vars

\* headers[0] was out of bounds and nothing was written
C6_Witness ==
    /\ failure = "index"
    /\ cur \in DOMAIN conns
    /\ FailedSilently(conns[cur])

(***************************************************************************)
(* C7: after a failed bind, a failed accept, or a failed read, write or    *)
(* flush on a connection, the only step left is the end of the process:    *)
(* nothing is accepted, handled or written any more.                       *)
(***************************************************************************)
IoPanics == {"bind", "accept", "read", "write", "flush"}

C7_FailureIsFatal ==
    /\ [](failure \in {"bind", "accept"} => pc = "terminated")
    /\ [](failure \in {"read", "write", "flush"} =>
            pc = "terminated" \/ (pc = "install" /\ conns[cur].state = "panicked"))
    /\ [][(failure \in IoPanics) =>
            (pc' = "terminated" /\ accepted' = accepted /\ conns' = conns)]_vars

\* the process ended on a connection's I/O error with connections still to come
C7_Witness ==
    /\ pc = "terminated"
    /\ failure \in {"read", "write", "flush"}
    /\ accepted < MaxConns

(***************************************************************************)
(* C8: for a non-empty descriptor list the page sequence has one page per  *)
(* descriptor, in order, each with its descriptor's name and its           *)
(* descriptor's path, whether the file was there or had to be created.     *)
(***************************************************************************)
C8_PagesMirrorDescriptors ==
    Constructed /\ Len(config.pages) > 0 =>
        /\ Len(pages) = Len(config.pages)
        /\ \A i \in 1..Len(pages) :
             /\ pages[i].name = config.pages[i].name.v
             /\ pages[i].path = config.pages[i].path.v

(***************************************************************************)
(* C9: for every descriptor construction has dealt with: if its file was   *)
(* missing, the file now exists and is empty, its directories exist, and   *)
(* its page has empty contents; if its file was there, its page has the    *)
(* file's contents and the file is as it was.                              *)
(***************************************************************************)
\* the file of descriptor i, as a key of the file system
TargetKey(i) == <<config.web_root.v>> \o Split(config.pages[i].path.v, Slash)

\* construction is past descriptor i, by a page or by a panic in create_file
DealtWith(i) ==
    \/ i <= idx
    \/ i = idx + 1 /\ pc = "terminated" /\ failure = "create_file"

C9_FilesAndContents ==
    pc # "new" /\ ConfigPanic(config) = "none" =>
      \A i \in 1..Len(config.pages) :
        DealtWith(i) =>
          IF TargetKey(i) \notin DOMAIN fs0.files
          THEN /\ TargetKey(i) \in DOMAIN fs.files
               /\ fs.files[TargetKey(i)] = <<>>
               /\ \A n \in 1..(Len(TargetKey(i)) - 1) : SubSeq(TargetKey(i), 1, n) \in fs.dirs
               /\ i <= Len(pages) => pages[i].contents = <<>>
          ELSE /\ i <= Len(pages) => pages[i].contents = fs0.files[TargetKey(i)]
               /\ fs.files[TargetKey(i)] = fs0.files[TargetKey(i)]

(***************************************************************************)
(* C10: with an empty descriptor list the page sequence is one page named  *)
(* index.html with empty contents, and an empty index.html is on disk      *)
(* under the web root.                                                     *)
(***************************************************************************)
C10_DefaultPage ==
    Constructed /\ config.pages = <<>> =>
        /\ Len(pages) = 1
        /\ pages[1].name = IndexHtml
        /\ pages[1].contents = <<>>
        /\ <<config.web_root.v, IndexHtml>> \in DOMAIN fs.files
        /\ fs.files[<<config.web_root.v, IndexHtml>>] = <<>>

\* the default page was made over an index.html that had contents
C10_Witness ==
    /\ Constructed
    /\ config.pages = <<>>
    /\ <<config.web_root.v, IndexHtml>> \in DOMAIN fs0.files
    /\ fs0.files[<<config.web_root.v, IndexHtml>>] = Hi

(***************************************************************************)
(* C11: a serialized Response is "HTTP/", the version, a space, the status *)
(* code, a space, the status message, CRLF, every header line followed by  *)
(* CRLF in the order added, one CRLF, and the body, with nothing after it, *)
(* whatever the mutators set.                                              *)
(***************************************************************************)
\* the decimal text of the status codes the mutators are given
CodeText(c) ==
    IF c = StatusOk THEN <<"2", "0", "0">>
    ELSE IF c = NotFound THEN <<"4", "0", "4">>
    ELSE <<"7">>

WireFormat(r) ==
    <<"H", "T", "T", "P", "/">> \o r.version \o <<" ">> \o CodeText(r.status_code)
        \o <<" ">> \o r.status_message \o <<"\r", "\n">>
        \o Concat([i \in 1..Len(r.headers) |-> r.headers[i] \o <<"\r", "\n">>])
        \o <<"\r", "\n">> \o r.body

C11_WireFormat == wire # <<>> => wire = WireFormat(resp)

\* two different header lines, a status and a body set by the mutators
C11_Witness ==
    /\ wire # <<>>
    /\ resp.status_code = NotFound
    /\ resp.status_message = MsgNotFound
    /\ resp.headers = <<HostX, HeaderA>>
    /\ resp.body = BodyLines

(***************************************************************************)
(* C12: once Server::new has returned, no step changes the page sequence   *)
(* (names, paths, contents, order, length), the configuration or the file  *)
(* system, whether it accepts, handles or fails a connection; and a step   *)
(* that changes one connection's record leaves every other connection's    *)
(* record as it was: the connections share nothing that is written.        *)
(***************************************************************************)
C12_PagesFrozen ==
    [][Constructed =>
         /\ pages' = pages
         /\ config' = config
         /\ fs' = fs
         /\ \A j \in DOMAIN conns : \A k \in DOMAIN conns :
               (j # k /\ conns'[k] # conns[k]) => conns'[j] = conns[j]]_vars

\* two pages in the store, one connection served and closed, the next one
\* served a page other than the first
C12_Witness ==
    /\ Constructed
    /\ Len(pages) = 2
    /\ accepted = 2
    /\ conns[1].state = "closed"
    /\ conns[2].state = "written"
    /\ conns[2].out # to_string(BuildResponse(pages[1]))

(***************************************************************************)
(* C13: the Request of a connection whose request parsed has as headers    *)
(* the CRLF-delimited lines of the text before the first empty line (all   *)
(* of them when no line is empty), in order, the first being the request   *)
(* line itself; its path and version are the second and third of the       *)
(* pieces the request line falls into when cut at every single space; and  *)
(* its body is empty whatever the method, the Content-Length header or the *)
(* bytes after the empty line.                                             *)
(***************************************************************************)
\* the pieces joined again with the separator between them
RECURSIVE JoinWith(_, _)
JoinWith(pieces, sep) ==
    IF Len(pieces) = 1 THEN pieces[1]
    ELSE pieces[1] \o sep \o JoinWith(Tail(pieces), sep)

\* how many lines of the text come before its first empty line
LinesBeforeEmpty(text) ==
    LET lines == Split(text, CRLF)
        empty == {i \in 1..Len(lines) : lines[i] = <<>>}
    IN  IF empty = {} THEN Len(lines) ELSE Least(empty) - 1

C13_ParsedRequest ==
    \A k \in DOMAIN conns :
        conns[k].state = "written" =>
            LET text == TextOf(k)
                lines == Split(text, CRLF)
                request == conns[k].request
                words == Tokens(text)
            IN  /\ request.headers = SubSeq(lines, 1, LinesBeforeEmpty(text))
                /\ request.headers[1] = FirstLine(text)
                /\ JoinWith(words, SP) = FirstLine(text)
                /\ \A i \in 1..Len(words) : \A j \in 1..Len(words[i]) : <<words[i][j]>> # SP
                /\ request.method = words[1]
                /\ request.path = words[2]
                /\ request.version = words[3]
                /\ request.body = <<>>

\* a POST with a Content-Length header and two bytes after the empty line
\* was parsed and answered
C13_Witness ==
    \E k \in DOMAIN conns :
        /\ conns[k].state = "written"
        /\ conns[k].request.method = POST
        /\ conns[k].request.headers = <<ReqLine(POST, NameA, Http10), ContentLength2>>
        /\ SubSeq(conns[k].buffer, Len(conns[k].buffer) - 1, Len(conns[k].buffer)) = Hi
        /\ conns[k].request.body = <<>>

(***************************************************************************)
(* C14: a connection goes through its events in one order: taken by a      *)
(* worker, read once, parsed, routed and answered with one write, flushed, *)
(* closed. It is read exactly once, bytes are written to it at most once   *)
(* and only when its request parsed, and once it is closed or has failed   *)
(* nothing happens on it again: it is never read a second time.            *)
(***************************************************************************)
ConnSteps ==
    {<<"queued", "reading">>, <<"reading", "read">>, <<"reading", "panicked">>,
     <<"read", "written">>, <<"read", "panicked">>,
     <<"written", "closed">>, <<"written", "panicked">>}

C14_EventOrder ==
    [][ /\ \A k \in DOMAIN conns' \ DOMAIN conns : conns'[k] = NewConn
        /\ \A k \in DOMAIN conns :
             LET before == conns[k]
                 after == conns'[k]
             IN  /\ after.state # before.state =>
                        <<before.state, after.state>> \in ConnSteps
                 /\ before.state \in {"closed", "panicked"} => after = before
                 /\ after.sent # before.sent =>
                        \/ before.state = "reading" /\ after.state = "read"
                        \/ after.state \in {"closed", "panicked"} /\ after.sent = <<>>
                 /\ after.wrote # before.wrote =>
                        /\ before.wrote = "nothing"
                        /\ before.state = "read"
                        /\ ParsePanic(TextOf(k)) = "none"
                        /\ after.state \in {"written", "panicked"}
                 /\ after.state = "written" /\ before.state # "written" =>
                        after.out = to_string(BuildResponse(find_page(pages, after.request.path)))
      ]_vars

\* one connection was read, answered, flushed and closed, and the next one
\* failed before anything was written to it
C14_Witness ==
    /\ accepted = 2
    /\ conns[1].state = "closed"
    /\ conns[1].wrote = "all"
    /\ conns[2].state = "panicked"
    /\ conns[2].wrote = "nothing"
    /\ failure \in {"index", "method", "path", "version"}

(***************************************************************************)
(* C15: the parser is given the bytes of the one read, which are the first *)
(* 1024 bytes of what the client sent, or all of it when it sent less;     *)
(* nothing further is read. So whatever other request agrees with the one  *)
(* sent on the first 1024 bytes has the same parse outcome, the same       *)
(* panic or none, and is answered with the same response bytes.            *)
(***************************************************************************)
\* the text the parser is given when the client sent these bytes
Seen(sent) == from_utf8_lossy(ReadBuffer(sent))

\* the requests that agree with these bytes on the first 1024
AgreeWith(sent) == {other \in Requests : Take(other, BufSize) = Take(sent, BufSize)}

\* two requests parse alike: the same panic, or the same Request
SameOutcome(a, b) ==
    /\ ParsePanic(Seen(a)) = ParsePanic(Seen(b))
    /\ ParsePanic(Seen(a)) = "none" => Request_new(Seen(a)) = Request_new(Seen(b))

\* requests that agree on the first 1024 bytes parse alike
CutDecides == \A a \in Requests : \A b \in AgreeWith(a) : SameOutcome(a, b)

C15_Truncation ==
    \A k \in DOMAIN conns :
         conns[k].state \in {"read", "written"} =>
            LET sent == conns[k].sent
                buffer == conns[k].buffer
            IN  /\ CutDecides
                /\ Len(buffer) = Min(Len(sent), BufSize)
                /\ buffer = SubSeq(sent, 1, Len(buffer))
                /\ TextOf(k) = Seen(sent)
                /\ conns[k].state = "written" =>
                      /\ ParsePanic(Seen(sent)) = "none"
                      /\ conns[k].request = Request_new(Seen(sent))
                      /\ conns[k].out = to_string(BuildResponse(find_page(pages,
                                            Request_new(Seen(sent)).path)))

\* a request longer than the buffer, cut in the middle of a header line, was
\* answered, and another request differs from it only after the cut
C15_Witness ==
    \E k \in DOMAIN conns :
        /\ conns[k].state = "written"
        /\ Len(conns[k].sent) > BufSize
        /\ Len(conns[k].buffer) = BufSize
        /\ Len(conns[k].request.headers) = 2
        /\ \E other \in AgreeWith(conns[k].sent) : other # conns[k].sent

(***************************************************************************)
(* C16: nothing cancels or times out a read. While the read of an accepted *)
(* connection has not returned, the main thread is inside install for that *)
(* connection, every other connection is already over, and the only step   *)
(* there is is that read returning, with bytes or with an error: no        *)
(* connection is accepted and none is served, with one worker or with      *)
(* several. A client that sends nothing keeps all later ones from service. *)
(***************************************************************************)
Blocked(k) == k \in DOMAIN conns /\ conns[k].state = "reading"

C16_ReadBlocksAll ==
    /\ [](\A k \in DOMAIN conns :
            Blocked(k) =>
                /\ pc = "install"
                /\ cur = k
                /\ \A j \in DOMAIN conns \ {k} : conns[j].state \in {"closed", "panicked"})
    /\ [][\A k \in DOMAIN conns :
            Blocked(k) =>
                /\ conns'[k].state \in {"read", "panicked"}
                /\ accepted' = accepted
                /\ DOMAIN conns' = DOMAIN conns
                /\ \A j \in DOMAIN conns \ {k} : conns'[j] = conns[j]
                /\ pc' = pc]_vars

\* the first connection is in its read, the pool has a second worker free
\* and another client could still connect
C16_Witness ==
    /\ Blocked(1)
    /\ config.thread_count > 1
    /\ accepted < MaxConns

(***************************************************************************)
(* C17: a request that fails to parse (no header line, a method outside    *)
(* the four, a request line of fewer than three pieces) does not cost only *)
(* its connection: the panic comes back through install to the accept      *)
(* loop and ends the process. After it the only step is that end; no       *)
(* connection is accepted and none is handled, so clients that connect     *)
(* after a malformed request are never served.                             *)
(***************************************************************************)
ParsePanics == {"index", "method", "path", "version"}

C17_ParsePanicFatal ==
    /\ [](failure \in ParsePanics =>
            \/ pc = "terminated"
            \/ pc = "install" /\ conns[cur].state = "panicked")
    /\ [](failure \in ParsePanics =>
            \A k \in DOMAIN conns : conns[k].state \in {"closed", "panicked"})
    /\ [][(failure \in ParsePanics) =>
            (pc' = "terminated" /\ accepted' = accepted /\ conns' = conns)]_vars

\* the process ended on the first connection's malformed request, with
\* nothing written to it and the later clients never accepted
C17_Witness ==
    /\ pc = "terminated"
    /\ failure \in ParsePanics
    /\ accepted = 1
    /\ accepted < MaxConns
    /\ conns[1].state = "panicked"
    /\ conns[1].wrote = "nothing"

(***************************************************************************)
(* C19: the bytes a connection is answered with are a function of the path *)
(* of its request and of the page sequence alone. Whatever request parses  *)
(* and has the same path, be its method, version, header lines or trailing *)
(* bytes different, is answered with the very same bytes, and that on the  *)
(* first connection as on any later one.                                   *)
(***************************************************************************)
\* the Requests that the requests clients send parse to
ParsedRequests ==
    {Request_new(Seen(sent)) : sent \in {s \in Requests : ParsePanic(Seen(s)) = "none"}}

\* the bytes that answer a request, from its path and the pages
AnswerTo(request, ps) == to_string(BuildResponse(find_page(ps, request.path)))

C19_PathDecides ==
    \A k \in DOMAIN conns :
        conns[k].state = "written" =>
            /\ conns[k].request \in ParsedRequests
            /\ \A other \in ParsedRequests :
                  other.path = conns[k].request.path =>
                      AnswerTo(other, pages) = conns[k].out

\* the second connection was answered, and a request of another method,
\* version and header line has the same path
C19_Witness ==
    /\ accepted = 2
    /\ conns[1].state = "closed"
    /\ conns[2].state = "written"
    /\ \E other \in ParsedRequests :
          /\ other.path = conns[2].request.path
          /\ other.method # conns[2].request.method
          /\ other.version # conns[2].request.version
          /\ Tail(other.headers) # Tail(conns[2].request.headers)

(***************************************************************************)
(* C18: among clients that each send a well-formed request, with no bind,  *)
(* accept, read, write or flush failing and the program's threads running  *)
(* when they can, every accepted connection in the end has one complete    *)
(* response, is closed, and the server is back at accepting; and the       *)
(* server, once constructed, never terminates.                             *)
(***************************************************************************)
Served(k) ==
    /\ k \in DOMAIN conns
    /\ conns[k].state = "closed"
    /\ conns[k].wrote = "all"
    /\ pc = "accepting"

C18_AllServed ==
    /\ \A k \in 1..MaxConns : (k \in DOMAIN conns) ~> Served(k)
    /\ [](Constructed => pc # "terminated")

(***************************************************************************)
(* C18, as it holds: in such a run every accepted connection in the end    *)
(* either has one complete response, is closed, and the server is back at  *)
(* accepting, or the server has terminated. It terminates in two cases     *)
(* only: the request was longer than the 1024 bytes of the one read and    *)
(* what was read of its request line has fewer than three pieces; or       *)
(* verbose is on and the peer address could not be had, after the complete *)
(* response was written and flushed.                                       *)
(***************************************************************************)
C18_ServedOrTerminated ==
    /\ \A k \in 1..MaxConns :
          (k \in DOMAIN conns) ~> (Served(k) \/ pc = "terminated")
    /\ [](Constructed /\ pc = "terminated" => failure \in {"path", "version", "peer_addr"})
    /\ [](failure = "peer_addr" =>
            /\ config.verbose = "true"
            /\ conns[cur].state = "panicked"
            /\ conns[cur].wrote = "all")
    /\ [][(failure = "none" /\ failure' \in {"path", "version"}) =>
            /\ conns[cur].state = "read"
            /\ conns[cur].sent \in WellFormed
            /\ Len(conns[cur].sent) > BufSize
            /\ conns'[cur].wrote = "nothing"]_vars

\* both clients were served and the server is back at accepting
C18_Witness ==
    /\ accepted = MaxConns
    /\ \A k \in 1..MaxConns : Served(k)
    /\ failure = "none"

=============================================================================
